---- MODULE Spec2Model ----
(***************************************************************************)
(* Workday event collector (WorkdayEventCollector.py): the incremental     *)
(* fetch of activity loggings.  One fetch-events invocation of main()      *)
(* reads the last-run object, pages through the activity-logging API up    *)
(* to max_fetch records, truncates the request times to whole seconds,     *)
(* removes the loggings already fetched at the last request time, sends    *)
(* the rest to XSIAM and saves the new last-run object.                    *)
(*                                                                         *)
(* Times are whole seconds (integers); a request time on the wire is a     *)
(* second together with a sub-second part, [sec, usec].  A logging is a    *)
(* record [taskId, requestTime, payload]; payload stands for every other   *)
(* field of the vendor's dict (list.remove compares whole dicts).          *)
(***************************************************************************)
EXTENDS Integers, Sequences, FiniteSets, TLC

VARIABLES
    vendor,             \* the loggings Workday holds, in requestTime order
    max_fetch_param,    \* params.get('max_fetch') as a number (0: not set)
    first_fetch,        \* the configured first fetch time
    now,                \* the wall clock, in seconds
    lastRun,            \* the host's last-run slot (getLastRun / setLastRun)
    pc,                 \* where main() is: idle, paging, fetched, send
    last_run,           \* main's local copy, read by getLastRun
    from_date,          \* fetch_activity_logging: from_date
    to_date,            \* fetch_activity_logging: to_date
    offset,             \* get_max_fetch_activity_logging: offset
    logging_to_fetch,   \* get_max_fetch_activity_logging: logging_to_fetch
    activity_loggings,  \* the loggings accumulated, then the batch returned
    candidates,         \* history: the loggings handed to the deduplication
    new_last_run,       \* the last-run object fetch_activity_logging returns
    outcome,            \* how the last invocation ended: none, ok, error
    calls,              \* the page calls of this invocation: [offset, limit, n]
    sent,               \* the batches handed to send_events_to_xsiam
    writes,             \* the values passed to setLastRun in this invocation
    startRun,           \* history: lastRun when the invocation started
    delivered,          \* history: <<taskId, requestTime>> of batches saved
    unsaved             \* history: the keys of the batch whose send raised

vars == <<vendor, max_fetch_param, first_fetch, now, lastRun, pc, last_run,
          from_date, to_date, offset, logging_to_fetch, activity_loggings,
          candidates, new_last_run, outcome, calls, sent, writes, startRun,
          delivered, unsaved>>

config == <<vendor, max_fetch_param, first_fetch>>

(***************************************************************************)
(* Bounds of the model.                                                    *)
(***************************************************************************)
MaxRecs == 3
MaxFetch == 2
MaxNow == 2
MaxCand == 3
MaxCalls == 4

TaskIds == {"A", "B"}
Payloads == {"p"}
Usecs == {0, 999}
Secs == 0 .. (MaxNow - 1)
CandPayloads == {"p", "q"}
CandSecs == {0, 1, 2}
CandUsecs == {999}
PageMaxFetches == {-1, 0, 1, 2, 999, 1000, 1001, 1500, 2000}
PageSizes == {0, 1, 500, 999}

(***************************************************************************)
(* Program constants.                                                      *)
(***************************************************************************)
DefaultMaxFetch == 1000
PageCap == 1000

Min(a, b) == IF a < b THEN a ELSE b

Last(s) == s[Len(s)]

(***************************************************************************)
(* The vendor's loggings, with the request time as rendered on the wire.   *)
(***************************************************************************)
RawLoggings ==
    [taskId : TaskIds, requestTime : [sec : Secs, usec : Usecs], payload : Payloads]

TimeLeq(t, u) == t.sec < u.sec \/ (t.sec = u.sec /\ t.usec <= u.usec)

IsSorted(s) ==
    \A i \in 1 .. (Len(s) - 1) : TimeLeq(s[i].requestTime, s[i + 1].requestTime)

SeqsUpTo(S, n) == UNION {[1 .. k -> S] : k \in 0 .. n}

VendorData == {s \in SeqsUpTo(RawLoggings, MaxRecs) : IsSorted(s)}

(***************************************************************************)
(* The last-run object: the empty dict, or last_fetch_time with            *)
(* last_fetched_loggings.                                                  *)
(***************************************************************************)
EmptyRun == [present |-> FALSE, last_fetch_time |-> 0, last_fetched_loggings |-> {}]

MkRun(t, ids) == [present |-> TRUE, last_fetch_time |-> t, last_fetched_loggings |-> ids]

(***************************************************************************)
(* main: max_fetch = arg_to_number(params.get('max_fetch')) or 1000        *)
(***************************************************************************)
MaxFetchOf(p) == IF p = 0 THEN DefaultMaxFetch ELSE p

(***************************************************************************)
(* Client.get_activity_logging_request: the loggings of the window         *)
(* [from, to) from the offset on, at most limit of them.  The vendor's     *)
(* log is append-only: a logging is in the window once the clock has       *)
(* passed its second, and the window of one invocation does not change     *)
(* between its page calls (to_date is taken once, at line 231).            *)
(***************************************************************************)
InWindowNoFrom(r, from, to) == r.requestTime.sec < to

InWindow(r, from, to) == r.requestTime.sec >= from /\ r.requestTime.sec < to

Window(data, from, to) == SelectSeq(data, LAMBDA r : InWindow(r, from, to))

get_activity_logging_request(data, from, to, off, limit) ==
    LET w == Window(data, from, to)
    IN  SubSeq(w, off + 1, Min(off + limit, Len(w)))

(***************************************************************************)
(* get_max_fetch_activity_logging: the page size of one call.              *)
(***************************************************************************)
LimitWholePage(to_fetch) == PageCap

Limit(to_fetch) == IF to_fetch < PageCap THEN to_fetch ELSE PageCap

(***************************************************************************)
(* remove_milliseconds_from_time_of_loggings: strptime with %f, strftime   *)
(* with DATE_FORMAT, which has no sub-second field.                        *)
(***************************************************************************)
RoundTime(t) == IF t.usec >= 500 THEN t.sec + 1 ELSE t.sec

TruncateTime(t) == t.sec

remove_milliseconds_from_time_of_loggings(loggings) ==
    [i \in 1 .. Len(loggings) |->
        [loggings[i] EXCEPT !.requestTime = TruncateTime(loggings[i].requestTime)]]

(***************************************************************************)
(* logging.get('taskId'): None when the dict has no such key.  A logging   *)
(* without requestTime makes strptime raise.                               *)
(***************************************************************************)
NoneValue == "None"

TaskIdOf(logging) == IF "taskId" \in DOMAIN logging THEN logging.taskId ELSE NoneValue

HasRequestTime(logging) == "requestTime" \in DOMAIN logging

(***************************************************************************)
(* list.remove(x): removes the first element equal to x.                   *)
(***************************************************************************)
IndexOf(s, x) == CHOOSE i \in 1 .. Len(s) : s[i] = x /\ \A j \in 1 .. (i - 1) : s[j] # x

ListRemove(s, x) ==
    LET i == IndexOf(s, x)
    IN  SubSeq(s, 1, i - 1) \o SubSeq(s, i + 1, Len(s))

(***************************************************************************)
(* remove_duplicated_activity_logging: the loop over activity_loggings     *)
(* .copy(), removing from activity_loggings itself.                        *)
(***************************************************************************)
RECURSIVE DedupLoopNoReset(_, _, _, _, _)
DedupLoopNoReset(copy, i, loggings, time_to_check, last_fetched_loggings) ==
    IF i > Len(copy)
    THEN [loggings |-> loggings, last_fetched_loggings |-> last_fetched_loggings]
    ELSE LET logging == copy[i]
             logging_id == TaskIdOf(logging)
         IN  IF logging.requestTime > time_to_check
             THEN DedupLoopNoReset(copy, i + 1, loggings, logging.requestTime,
                                   last_fetched_loggings \cup {logging_id})
             ELSE IF logging_id \in last_fetched_loggings
                  THEN DedupLoopNoReset(copy, i + 1, ListRemove(loggings, logging),
                                        time_to_check, last_fetched_loggings)
                  ELSE DedupLoopNoReset(copy, i + 1, loggings, time_to_check,
                                        last_fetched_loggings \cup {logging_id})

RECURSIVE DedupLoopPassBehind(_, _, _, _, _, _)
DedupLoopPassBehind(copy, i, loggings, time_to_check, last_fetched_loggings, first) ==
    IF i > Len(copy)
    THEN [loggings |-> loggings, last_fetched_loggings |-> last_fetched_loggings]
    ELSE LET logging == copy[i]
             logging_id == TaskIdOf(logging)
         IN  IF logging.requestTime > time_to_check
             THEN DedupLoopPassBehind(copy, i + 1, loggings, logging.requestTime,
                                      {logging_id}, first)
             ELSE IF logging_id \in last_fetched_loggings /\ logging.requestTime >= first
                  THEN DedupLoopPassBehind(copy, i + 1, ListRemove(loggings, logging),
                                           time_to_check, last_fetched_loggings, first)
                  ELSE DedupLoopPassBehind(copy, i + 1, loggings, time_to_check,
                                           last_fetched_loggings \cup {logging_id}, first)

RemoveDuplicatedPassBehind(loggings, run, time_to_check) ==
    DedupLoopPassBehind(loggings, 1, loggings, time_to_check,
                        IF run.present THEN run.last_fetched_loggings ELSE {},
                        time_to_check)

RECURSIVE DedupLoop(_, _, _, _, _)
DedupLoop(copy, i, loggings, time_to_check, last_fetched_loggings) ==
    IF i > Len(copy)
    THEN [loggings |-> loggings, last_fetched_loggings |-> last_fetched_loggings]
    ELSE LET logging == copy[i]
             logging_id == TaskIdOf(logging)
         IN  IF logging.requestTime > time_to_check
             THEN DedupLoop(copy, i + 1, loggings, logging.requestTime, {logging_id})
             ELSE IF logging_id \in last_fetched_loggings
                  THEN DedupLoop(copy, i + 1, ListRemove(loggings, logging),
                                 time_to_check, last_fetched_loggings)
                  ELSE DedupLoop(copy, i + 1, loggings, time_to_check,
                                 last_fetched_loggings \cup {logging_id})

RemoveDuplicatedUnseeded(loggings, run, time_to_check) ==
    DedupLoop(loggings, 1, loggings, time_to_check, {})

remove_duplicated_activity_logging(loggings, run, time_to_check) ==
    DedupLoop(loggings, 1, loggings, time_to_check,
              IF run.present THEN run.last_fetched_loggings ELSE {})

(***************************************************************************)
(* fetch_activity_logging, from line 230: the window.                      *)
(***************************************************************************)
FromDate(run, first) == IF run.present THEN run.last_fetch_time ELSE first

(***************************************************************************)
(* fetch_activity_logging, lines 244-247: the last-run object returned.    *)
(***************************************************************************)
NewLastRun(loggings, ids, run) ==
    IF loggings # <<>> THEN MkRun(Last(loggings).requestTime, ids) ELSE run

Keys(loggings) == {<<TaskIdOf(loggings[i]), loggings[i].requestTime>> : i \in 1 .. Len(loggings)}

(***************************************************************************)
(* Initial state: a configured instance that has never fetched.  The       *)
(* first fetch time is the origin of the clock; max_fetch_param ranges     *)
(* over an invalid cap (-1), the parameter left unset (0, which main       *)
(* replaces by 1000) and the caps 1 .. MaxFetch.                           *)
(***************************************************************************)
Init ==
    /\ vendor \in VendorData
    /\ max_fetch_param \in (-1 .. MaxFetch)
    /\ first_fetch = 0
    /\ now = 0
    /\ lastRun = EmptyRun
    /\ pc = "idle"
    /\ last_run = EmptyRun
    /\ from_date = 0
    /\ to_date = 0
    /\ offset = 0
    /\ logging_to_fetch = 0
    /\ activity_loggings = <<>>
    /\ candidates = <<>>
    /\ new_last_run = EmptyRun
    /\ outcome = "none"
    /\ calls = <<>>
    /\ sent = <<>>
    /\ writes = <<>>
    /\ startRun = EmptyRun
    /\ delivered = {}
    /\ unsaved = {}

(***************************************************************************)
(* Time passes between invocations.                                        *)
(***************************************************************************)
Tick ==
    /\ pc = "idle"
    /\ now < MaxNow
    /\ now' = now + 1
    /\ UNCHANGED <<config, lastRun, pc, last_run, from_date, to_date, offset,
                   logging_to_fetch, activity_loggings, candidates, new_last_run,
                   outcome, calls, sent, writes, startRun, delivered, unsaved>>

(***************************************************************************)
(* main, fetch-events: getLastRun, then fetch_activity_logging up to the   *)
(* first test of the while loop.                                           *)
(***************************************************************************)
Start ==
    /\ pc = "idle"
    /\ last_run' = lastRun
    /\ startRun' = lastRun
    /\ from_date' = FromDate(lastRun, first_fetch)
    /\ to_date' = now
    /\ activity_loggings' = <<>>
    /\ candidates' = <<>>
    /\ offset' = 0
    /\ logging_to_fetch' = MaxFetchOf(max_fetch_param)
    /\ new_last_run' = EmptyRun
    /\ outcome' = "none"
    /\ calls' = <<>>
    /\ sent' = <<>>
    /\ writes' = <<>>
    /\ pc' = IF MaxFetchOf(max_fetch_param) > 0 THEN "paging" ELSE "fetched"
    /\ UNCHANGED <<config, now, lastRun, delivered, unsaved>>

(***************************************************************************)
(* The body of the while loop of get_max_fetch_activity_logging once the   *)
(* call has returned n loggings, and the loop's exits.                     *)
(***************************************************************************)
LoopBodyNoBreak(n) ==
    /\ offset' = offset + n
    /\ logging_to_fetch' = logging_to_fetch - n
    /\ calls' = Append(calls, [offset |-> offset, limit |-> Limit(logging_to_fetch),
                               n |-> n, raised |-> FALSE])
    /\ pc' = IF logging_to_fetch - n <= 0 THEN "fetched" ELSE "paging"

LoopBodyNoDecrement(n) ==
    /\ offset' = offset + n
    /\ logging_to_fetch' = logging_to_fetch
    /\ calls' = Append(calls, [offset |-> offset, limit |-> Limit(logging_to_fetch),
                               n |-> n, raised |-> FALSE])
    /\ pc' = IF n = 0 \/ logging_to_fetch <= 0 THEN "fetched" ELSE "paging"

LoopBody(n) ==
    /\ offset' = offset + n
    /\ logging_to_fetch' = logging_to_fetch - n
    /\ calls' = Append(calls, [offset |-> offset, limit |-> Limit(logging_to_fetch),
                               n |-> n, raised |-> FALSE])
    /\ pc' = IF n = 0 \/ logging_to_fetch - n <= 0 THEN "fetched" ELSE "paging"

(***************************************************************************)
(* One iteration of the while loop: the page call returns.                 *)
(***************************************************************************)
PageOK ==
    /\ pc = "paging"
    /\ LET res == get_activity_logging_request(vendor, from_date, to_date, offset,
                                               Limit(logging_to_fetch))
       IN  /\ activity_loggings' = activity_loggings \o res
           /\ LoopBody(Len(res))
    /\ UNCHANGED <<config, now, lastRun, last_run, from_date, to_date, candidates,
                   new_last_run, outcome, sent, writes, startRun, delivered, unsaved>>

(***************************************************************************)
(* The page call raises: main's except clause reports the error.           *)
(***************************************************************************)
PageFailSavingPartial ==
    /\ pc = "paging"
    /\ calls' = Append(calls, [offset |-> offset, limit |-> Limit(logging_to_fetch),
                               n |-> 0, raised |-> TRUE])
    /\ outcome' = "error"
    /\ pc' = "idle"
    /\ lastRun' = NewLastRun(remove_milliseconds_from_time_of_loggings(activity_loggings),
                             {}, lastRun)
    /\ UNCHANGED <<config, now, last_run, from_date, to_date, offset,
                   logging_to_fetch, activity_loggings, candidates, new_last_run,
                   sent, writes, startRun, delivered, unsaved>>

PageFail ==
    /\ pc = "paging"
    /\ calls' = Append(calls, [offset |-> offset, limit |-> Limit(logging_to_fetch),
                               n |-> 0, raised |-> TRUE])
    /\ outcome' = "error"
    /\ pc' = "idle"
    /\ UNCHANGED <<config, now, lastRun, last_run, from_date, to_date, offset,
                   logging_to_fetch, activity_loggings, candidates, new_last_run,
                   sent, writes, startRun, delivered, unsaved>>

(***************************************************************************)
(* fetch_activity_logging after the page loop, lines 238-249.              *)
(***************************************************************************)
FetchReturn ==
    /\ pc = "fetched"
    /\ \A i \in 1 .. Len(activity_loggings) : HasRequestTime(activity_loggings[i])
    /\ LET normalized == remove_milliseconds_from_time_of_loggings(activity_loggings)
           res == remove_duplicated_activity_logging(normalized, last_run, from_date)
       IN  /\ candidates' = normalized
           /\ activity_loggings' = res.loggings
           /\ new_last_run' = NewLastRun(res.loggings, res.last_fetched_loggings, last_run)
    /\ pc' = "send"
    /\ UNCHANGED <<config, now, lastRun, last_run, from_date, to_date, offset,
                   logging_to_fetch, outcome, calls, sent, writes, startRun, delivered, unsaved>>

(***************************************************************************)
(* remove_milliseconds_from_time_of_loggings raises on a logging without   *)
(* requestTime (strptime of None): main's except clause reports the error. *)
(***************************************************************************)
FetchRaise ==
    /\ pc = "fetched"
    /\ \E i \in 1 .. Len(activity_loggings) : ~HasRequestTime(activity_loggings[i])
    /\ outcome' = "error"
    /\ pc' = "idle"
    /\ UNCHANGED <<config, now, lastRun, last_run, from_date, to_date, offset,
                   logging_to_fetch, activity_loggings, candidates, new_last_run,
                   calls, sent, writes, startRun, delivered, unsaved>>

(***************************************************************************)
(* main, lines 336-346: send_events_to_xsiam with the batch, then          *)
(* setLastRun when new_last_run is not the empty dict.                     *)
(***************************************************************************)
SentAfterNonEmpty(batches, batch) ==
    IF batch = <<>> THEN batches ELSE Append(batches, batch)

SentAfter(batches, batch) == Append(batches, batch)

SavedRunsAlways(run) == <<run>>

SavedRuns(run) == IF run.present THEN <<run>> ELSE <<>>

SendOK ==
    /\ pc = "send"
    /\ sent' = SentAfter(sent, activity_loggings)
    /\ writes' = writes \o SavedRuns(new_last_run)
    /\ lastRun' = IF SavedRuns(new_last_run) # <<>> THEN new_last_run ELSE lastRun
    /\ delivered' = delivered \cup Keys(activity_loggings)
    /\ unsaved' = {}
    /\ outcome' = "ok"
    /\ pc' = "idle"
    /\ UNCHANGED <<config, now, last_run, from_date, to_date, offset, logging_to_fetch,
                   activity_loggings, candidates, new_last_run, calls, startRun>>

(***************************************************************************)
(* send_events_to_xsiam raises: main's except clause reports the error.    *)
(***************************************************************************)
SendFailSaved ==
    /\ pc = "send"
    /\ sent' = SentAfter(sent, activity_loggings)
    /\ unsaved' = Keys(activity_loggings)
    /\ writes' = writes \o SavedRuns(new_last_run)
    /\ lastRun' = IF SavedRuns(new_last_run) # <<>> THEN new_last_run ELSE lastRun
    /\ outcome' = "error"
    /\ pc' = "idle"
    /\ UNCHANGED <<config, now, last_run, from_date, to_date, offset,
                   logging_to_fetch, activity_loggings, candidates, new_last_run,
                   calls, startRun, delivered>>

SendFail ==
    /\ pc = "send"
    /\ sent' = SentAfter(sent, activity_loggings)
    /\ unsaved' = Keys(activity_loggings)
    /\ outcome' = "error"
    /\ pc' = "idle"
    /\ UNCHANGED <<config, now, lastRun, last_run, from_date, to_date, offset,
                   logging_to_fetch, activity_loggings, candidates, new_last_run,
                   calls, writes, startRun, delivered>>

Next ==
    \/ Tick
    \/ Start
    \/ PageOK
    \/ PageFail
    \/ FetchReturn
    \/ SendOK
    \/ SendFail

Spec == Init /\ [][Next]_vars

(***************************************************************************)
(* The collector with a reliable vendor and sink, invoked again and again  *)
(* by the host while time passes.                                          *)
(***************************************************************************)
NextReliable ==
    \/ Tick
    \/ Start
    \/ PageOK
    \/ FetchReturn
    \/ SendOK

Invocation == Start \/ PageOK \/ FetchReturn \/ SendOK

FairSpec == Init /\ [][NextReliable]_vars /\ SF_vars(Tick) /\ WF_vars(Invocation)

(***************************************************************************)
(* The deduplication on its own: fetch_activity_logging returns from any   *)
(* candidate list the vendor may have sent, in any order, with any last-   *)
(* run object.                                                             *)
(***************************************************************************)
CandLoggings ==
    [taskId : TaskIds, requestTime : [sec : CandSecs, usec : CandUsecs], payload : CandPayloads]

LastRuns == {EmptyRun} \cup {MkRun(t, ids) : t \in CandSecs, ids \in SUBSET TaskIds}

DedupInit ==
    /\ vendor = <<>>
    /\ max_fetch_param = 0
    /\ first_fetch = 0
    /\ now = MaxNow
    /\ lastRun \in LastRuns
    /\ last_run = lastRun
    /\ startRun = lastRun
    /\ from_date = FromDate(lastRun, first_fetch)
    /\ to_date = now
    /\ activity_loggings \in SeqsUpTo(CandLoggings, MaxCand)
    /\ offset = Len(activity_loggings)
    /\ logging_to_fetch = MaxFetchOf(max_fetch_param) - Len(activity_loggings)
    /\ pc = "fetched"
    /\ candidates = <<>>
    /\ new_last_run = EmptyRun
    /\ outcome = "none"
    /\ calls = <<>>
    /\ sent = <<>>
    /\ writes = <<>>
    /\ delivered = {}
    /\ unsaved = {}

DedupSpec == DedupInit /\ [][FetchReturn]_vars

(***************************************************************************)
(* The deduplication on candidate lists in which a logging may lack its    *)
(* taskId, its requestTime or both.                                        *)
(***************************************************************************)
MalformedSecs == {0, 1}

WellFormedLoggings ==
    [taskId : TaskIds, requestTime : [sec : MalformedSecs, usec : CandUsecs],
     payload : Payloads]

MalformedLoggings ==
    [requestTime : [sec : MalformedSecs, usec : CandUsecs], payload : Payloads]
        \cup [taskId : TaskIds, payload : Payloads]
        \cup [payload : Payloads]

MalformedInit ==
    /\ vendor = <<>>
    /\ max_fetch_param = 0
    /\ first_fetch = 0
    /\ now = MaxNow
    /\ lastRun \in LastRuns
    /\ last_run = lastRun
    /\ startRun = lastRun
    /\ from_date = FromDate(lastRun, first_fetch)
    /\ to_date = now
    /\ activity_loggings \in SeqsUpTo(WellFormedLoggings \cup MalformedLoggings, MaxCand)
    /\ offset = Len(activity_loggings)
    /\ logging_to_fetch = MaxFetchOf(max_fetch_param) - Len(activity_loggings)
    /\ pc = "fetched"
    /\ candidates = <<>>
    /\ new_last_run = EmptyRun
    /\ outcome = "none"
    /\ calls = <<>>
    /\ sent = <<>>
    /\ writes = <<>>
    /\ delivered = {}
    /\ unsaved = {}

MalformedNext ==
    \/ FetchReturn
    \/ FetchRaise
    \/ SendOK

MalformedSpec == MalformedInit /\ [][MalformedNext]_vars

(***************************************************************************)
(* The page loop on its own, with the loggings of a page reduced to their  *)
(* number: the vendor answers a call for limit loggings with any of a few  *)
(* page sizes up to limit.                                                 *)
(***************************************************************************)
PageChoices(limit) == {n \in PageSizes \cup {limit} : n <= limit}

PageCount ==
    /\ pc = "paging"
    /\ Len(calls) < MaxCalls
    /\ \E n \in PageChoices(Limit(logging_to_fetch)) : LoopBody(n)
    /\ UNCHANGED <<config, now, lastRun, last_run, from_date, to_date,
                   activity_loggings, candidates, new_last_run, outcome, sent,
                   writes, startRun, delivered, unsaved>>

PageInit ==
    /\ vendor = <<>>
    /\ max_fetch_param \in PageMaxFetches
    /\ first_fetch = 0
    /\ now = 0
    /\ lastRun = EmptyRun
    /\ pc = "idle"
    /\ last_run = EmptyRun
    /\ from_date = 0
    /\ to_date = 0
    /\ offset = 0
    /\ logging_to_fetch = 0
    /\ activity_loggings = <<>>
    /\ candidates = <<>>
    /\ new_last_run = EmptyRun
    /\ outcome = "none"
    /\ calls = <<>>
    /\ sent = <<>>
    /\ writes = <<>>
    /\ startRun = EmptyRun
    /\ delivered = {}
    /\ unsaved = {}

PageNext ==
    \/ Start
    \/ PageCount
    \/ PageFail

PageSpec == PageInit /\ [][PageNext]_vars

(***************************************************************************)
(* Properties.                                                             *)
(***************************************************************************)

\* C1: no logging, identified by its taskId and its normalized requestTime,
\* is in the batch of an invocation when an earlier invocation, whose last-run
\* object this one started from, already returned it.
NoDuplicateDelivery ==
    pc = "send" => Keys(activity_loggings) \cap delivered = {}

\* An invocation that started from a saved last-run object has dropped a
\* logging of the boundary second and returns a new one.
NoDuplicateDeliveryWitness ==
    /\ pc = "send"
    /\ startRun.present
    /\ delivered # {}
    /\ activity_loggings # <<>>
    /\ Len(candidates) > Len(activity_loggings)

VendorKeys == {<<vendor[i].taskId, vendor[i].requestTime.sec>> : i \in 1 .. Len(vendor)}

\* C2: with max_fetch >= 1, a reliable vendor and sink, and invocations
\* repeated forever, every logging of the vendor is eventually returned.
EveryLoggingEventuallyReturned ==
    (max_fetch_param >= 1) => <>(VendorKeys \subseteq delivered)

\* C3: with a positive max_fetch, the loggings accumulated by the page loop
\* never exceed max_fetch, and the batch returned is no longer than the
\* candidate list and no longer than max_fetch.
CapRespected ==
    MaxFetchOf(max_fetch_param) > 0 =>
        /\ Len(activity_loggings) <= MaxFetchOf(max_fetch_param)
        /\ offset <= MaxFetchOf(max_fetch_param)
        /\ pc \in {"paging", "fetched"} => Len(activity_loggings) = offset
        /\ pc = "send" => Len(activity_loggings) <= Len(candidates)
        /\ pc = "send" => Len(candidates) = offset

\* The cap cut the window: the vendor holds more loggings in the window than
\* max_fetch, and exactly max_fetch were accumulated.
CapRespectedWitness ==
    /\ pc = "send"
    /\ max_fetch_param > 0
    /\ Len(candidates) = max_fetch_param
    /\ Len(Window(vendor, from_date, to_date)) > max_fetch_param
    /\ Len(activity_loggings) < Len(candidates)

PageRaised == pc = "idle" /\ calls # <<>> /\ Last(calls).raised

\* C4: when a page call raises, the invocation ends with an error, nothing
\* was sent, setLastRun was not called, and the last-run slot holds what it
\* held when the invocation started.
PageFailureAtomic ==
    PageRaised =>
        /\ outcome = "error"
        /\ writes = <<>>
        /\ sent = <<>>
        /\ lastRun = startRun

\* A later page raised after an earlier page had returned loggings.
PageFailureAtomicWitness ==
    /\ PageRaised
    /\ Len(calls) >= 2
    /\ calls[1].n > 0
    /\ activity_loggings # <<>>

ZeroSurvivors == pc = "idle" /\ outcome = "ok" /\ activity_loggings = <<>>

\* C5 as stated: an invocation with no surviving logging leaves the last-run
\* slot unchanged and does not call setLastRun.
EmptyBatchNoWrite ==
    ZeroSurvivors => lastRun = startRun /\ writes = <<>>

\* C5 amended: an invocation with no surviving logging leaves the value of
\* the last-run slot unchanged; setLastRun is not called when the prior
\* last-run object is the empty dict, and is called once, with the unchanged
\* object, when it is not.
EmptyBatchCursorUnchanged ==
    ZeroSurvivors =>
        /\ lastRun = startRun
        /\ startRun.present => writes = <<startRun>>
        /\ ~startRun.present => writes = <<>>

\* Every logging fetched was dropped as a duplicate of the saved last-run
\* object, which was written back.
EmptyBatchCursorUnchangedWitness ==
    /\ ZeroSurvivors
    /\ startRun.present
    /\ candidates # <<>>
    /\ writes = <<startRun>>

\* C6: the last_fetch_time an invocation returns is at least the
\* last_fetch_time it started with (and at least from_date).
WatermarkMonotone ==
    /\ (pc = "send" /\ new_last_run.present) =>
            /\ new_last_run.last_fetch_time >= from_date
            /\ startRun.present =>
                   new_last_run.last_fetch_time >= startRun.last_fetch_time
    /\ (lastRun.present /\ startRun.present) =>
            lastRun.last_fetch_time >= startRun.last_fetch_time

\* An invocation that started from a saved last_fetch_time saved a later one.
WatermarkMonotoneWitness ==
    /\ pc = "idle"
    /\ outcome = "ok"
    /\ startRun.present
    /\ lastRun.last_fetch_time > startRun.last_fetch_time

\* C7: every id of the saved last_fetched_loggings is the taskId of a
\* returned logging whose normalized requestTime is the saved
\* last_fetch_time; so is every id of the object an invocation returns.
SeenIdsAtWatermark ==
    /\ lastRun.present =>
           \A id \in lastRun.last_fetched_loggings :
               <<id, lastRun.last_fetch_time>> \in delivered
    /\ (pc = "send" /\ new_last_run.present) =>
           \A id \in new_last_run.last_fetched_loggings :
               <<id, new_last_run.last_fetch_time>>
                   \in delivered \cup Keys(activity_loggings)

\* The saved set was reset on a later second: an invocation returned
\* loggings of two seconds and saved only the ids of the later one.
SeenIdsAtWatermarkWitness ==
    /\ pc = "idle"
    /\ outcome = "ok"
    /\ Len(activity_loggings) >= 2
    /\ activity_loggings[1].requestTime < Last(activity_loggings).requestTime
    /\ activity_loggings[1].taskId \notin lastRun.last_fetched_loggings

\* C8 as stated: send_events_to_xsiam is called only with a non-empty batch.
SinkOnlyNonEmpty ==
    \A i \in 1 .. Len(sent) : sent[i] # <<>>

\* C8 amended: a fetch-events invocation whose fetch succeeded calls
\* send_events_to_xsiam exactly once, with the deduplicated batch, also when
\* the batch is empty.
SinkCalledOncePerFetch ==
    /\ Len(sent) <= 1
    /\ (pc = "idle" /\ outcome = "ok") => sent = <<activity_loggings>>
    /\ pc \in {"paging", "fetched", "send"} => sent = <<>>

\* An invocation with no surviving logging called the sink with the empty
\* batch.
SinkCalledOncePerFetchWitness ==
    /\ pc = "idle"
    /\ outcome = "ok"
    /\ candidates # <<>>
    /\ sent = << <<>> >>

\* Step 4 as one left-to-right pass that decides for each candidate, at its
\* own position, whether it is kept.
RECURSIVE SinglePass(_, _, _, _, _)
SinglePass(cands, i, kept, time_to_check, seenIds) ==
    IF i > Len(cands)
    THEN [records |-> kept, seenIds |-> seenIds]
    ELSE IF cands[i].requestTime > time_to_check
         THEN SinglePass(cands, i + 1, Append(kept, cands[i]), cands[i].requestTime,
                         {cands[i].taskId})
         ELSE IF cands[i].taskId \in seenIds
              THEN SinglePass(cands, i + 1, kept, time_to_check, seenIds)
              ELSE SinglePass(cands, i + 1, Append(kept, cands[i]), time_to_check,
                              seenIds \cup {cands[i].taskId})

\* C9: the list remove_duplicated_activity_logging returns is, as a sequence,
\* the candidates kept by the single pass, in arrival order, and the set it
\* returns is the running set after the pass.
DedupIsSinglePass ==
    pc = "send" =>
        LET r == SinglePass(candidates, 1, <<>>, from_date,
                            IF last_run.present THEN last_run.last_fetched_loggings
                            ELSE {})
        IN  /\ activity_loggings = r.records
            /\ activity_loggings # <<>> =>
                   new_last_run.last_fetched_loggings = r.seenIds

RECURSIVE Returned(_)
Returned(k) == IF k = 0 THEN 0 ELSE Returned(k - 1) + calls[k].n

\* C10: the k-th page call has offset = the number of loggings the calls
\* before it returned and limit = min(max_fetch - that number, 1000); a call
\* is made only while that number is below max_fetch and the call before it
\* returned a non-empty page; with max_fetch = 1500 and pages of 1000 and
\* 500 there are exactly two calls, at offsets 0 and 1000, and 1500
\* loggings are accumulated.
PaginationProtocol ==
    /\ \A k \in 1 .. Len(calls) :
           /\ calls[k].offset = Returned(k - 1)
           /\ calls[k].limit = Min(MaxFetchOf(max_fetch_param) - Returned(k - 1), PageCap)
           /\ Returned(k - 1) < MaxFetchOf(max_fetch_param)
           /\ k > 1 => calls[k - 1].n > 0 /\ ~calls[k - 1].raised
    /\ offset = Returned(Len(calls))
    /\ pc = "paging" =>
           /\ offset < MaxFetchOf(max_fetch_param)
           /\ calls # <<>> => Last(calls).n > 0
    /\ (/\ max_fetch_param = 1500
        /\ Len(calls) >= 2
        /\ calls[1].n = 1000
        /\ calls[2].n = 500) =>
           /\ pc # "paging"
           /\ Len(calls) = 2
           /\ calls[1].offset = 0
           /\ calls[2].offset = 1000
           /\ offset = 1500

\* max_fetch = 1500 and the vendor returned pages of 1000 and 500.
PaginationProtocolWitness ==
    /\ max_fetch_param = 1500
    /\ pc = "fetched"
    /\ calls = <<[offset |-> 0, limit |-> 1000, n |-> 1000, raised |-> FALSE],
                 [offset |-> 1000, limit |-> 500, n |-> 500, raised |-> FALSE]>>
    /\ offset = 1500

WellFormed(logging) == "taskId" \in DOMAIN logging /\ "requestTime" \in DOMAIN logging

\* C11: a fetched logging without requestTime or without taskId is never in
\* the batch fetch_activity_logging returns, and None is never an entry of
\* the last_fetched_loggings it returns or of the set saved.
MalformedRejected ==
    /\ pc = "send" =>
           /\ \A i \in 1 .. Len(activity_loggings) : WellFormed(activity_loggings[i])
           /\ NoneValue \notin new_last_run.last_fetched_loggings
    /\ NoneValue \notin lastRun.last_fetched_loggings

\* C12: with a configured max_fetch <= 0 the invocation makes no page call,
\* hands nothing to the sink and does not end successfully (it reports a
\* configuration error).
InvalidCapRejected ==
    max_fetch_param <= 0 =>
        /\ calls = <<>>
        /\ sent = <<>>
        /\ outcome # "ok"

FetchedRaw == SubSeq(Window(vendor, from_date, to_date), 1, offset)

\* C13: every candidate handed to the deduplication is the fetched logging
\* with its requestTime cut to the whole second (never the next second), and
\* the comparisons are made on the cut times: a logging of the last fetch
\* second whose id was saved is not in the batch, whatever its sub-second
\* part.
SubSecondTruncated ==
    pc = "send" =>
        /\ Len(candidates) = Len(FetchedRaw)
        /\ \A i \in 1 .. Len(candidates) :
               /\ candidates[i].requestTime = FetchedRaw[i].requestTime.sec
               /\ candidates[i].taskId = FetchedRaw[i].taskId
               /\ candidates[i].payload = FetchedRaw[i].payload
        /\ \A j \in 1 .. Len(activity_loggings) :
               /\ activity_loggings[j].requestTime \in Secs
               /\ last_run.present =>
                      ~(/\ activity_loggings[j].requestTime = last_run.last_fetch_time
                        /\ activity_loggings[j].taskId \in last_run.last_fetched_loggings)

\* A logging fetched with the sub-second part .999 at the last fetch second,
\* its id saved, was compared at that second and dropped.
SubSecondTruncatedWitness ==
    /\ pc = "send"
    /\ last_run.present
    /\ \E i \in 1 .. Len(FetchedRaw) :
           /\ FetchedRaw[i].requestTime.usec = 999
           /\ FetchedRaw[i].requestTime.sec = last_run.last_fetch_time
           /\ FetchedRaw[i].taskId \in last_run.last_fetched_loggings
           /\ candidates[i].requestTime = last_run.last_fetch_time
    /\ Len(activity_loggings) < Len(candidates)

OutOfOrder(cands) ==
    \E i, j \in 1 .. Len(cands) : i < j /\ cands[i].requestTime > cands[j].requestTime

GreatestTime(loggings) ==
    CHOOSE t \in {loggings[i].requestTime : i \in 1 .. Len(loggings)} :
        \A i \in 1 .. Len(loggings) : loggings[i].requestTime <= t

NextBatch ==
    remove_duplicated_activity_logging(
        SelectSeq(candidates, LAMBDA r : r.requestTime >= new_last_run.last_fetch_time),
        new_last_run, new_last_run.last_fetch_time).loggings

\* C14: when the candidates, all at or after the last fetch time, hold a
\* logging with an earlier requestTime after one with a later requestTime,
\* the last_fetch_time returned is the greatest requestTime of the batch,
\* the ids of the batch at that time are in last_fetched_loggings, and the
\* next invocation on the same loggings returns none of the batch again.
OutOfOrderTolerated ==
    (/\ pc = "send"
     /\ activity_loggings # <<>>
     /\ OutOfOrder(candidates)
     /\ \A i \in 1 .. Len(candidates) : candidates[i].requestTime >= from_date) =>
        /\ new_last_run.last_fetch_time = GreatestTime(activity_loggings)
        /\ \A i \in 1 .. Len(activity_loggings) :
               activity_loggings[i].requestTime = new_last_run.last_fetch_time =>
                   activity_loggings[i].taskId \in new_last_run.last_fetched_loggings
        /\ Keys(NextBatch) \cap Keys(activity_loggings) = {}

\* The pass over the candidates, recording for each position the running
\* time_to_check and seen-id set before it and whether it is kept.
RECURSIVE PassTrace(_, _, _, _, _)
PassTrace(cands, i, trace, time_to_check, seenIds) ==
    IF i > Len(cands)
    THEN trace
    ELSE LET later == cands[i].requestTime > time_to_check
             keep == later \/ cands[i].taskId \notin seenIds
             entry == [keep |-> keep, time_to_check |-> time_to_check, seenIds |-> seenIds]
         IN  PassTrace(cands, i + 1, Append(trace, entry),
                       IF later THEN cands[i].requestTime ELSE time_to_check,
                       IF later THEN {cands[i].taskId}
                       ELSE seenIds \cup {cands[i].taskId})

Trace ==
    PassTrace(candidates, 1, <<>>, from_date,
              IF last_run.present THEN last_run.last_fetched_loggings ELSE {})

Count(loggings, x) == Cardinality({i \in 1 .. Len(loggings) : loggings[i] = x})

BehindWatermark ==
    {candidates[i] : i \in {k \in 1 .. Len(candidates) :
                                candidates[k].requestTime < from_date}}

\* C15 as stated: a candidate whose requestTime is before the last fetch
\* time is always kept: the batch holds as many copies of it as the
\* candidates do.
BehindWatermarkAlwaysKept ==
    (pc = "send" /\ last_run.present) =>
        \A x \in BehindWatermark : Count(activity_loggings, x) = Count(candidates, x)

\* C15 amended: a candidate whose requestTime is before the last fetch time
\* is kept exactly when its id is not in the running seen-id set at its turn
\* (and its id is then added to the set); when its id is in the set it is
\* dropped like a duplicate.
BehindWatermarkKeptUnlessSeen ==
    (pc = "send" /\ last_run.present) =>
        /\ \A i \in 1 .. Len(candidates) :
               candidates[i].requestTime < from_date =>
                   (Trace[i].keep <=> candidates[i].taskId \notin Trace[i].seenIds)
        /\ \A x \in BehindWatermark :
               Count(activity_loggings, x) =
                   Cardinality({i \in 1 .. Len(candidates) :
                                    candidates[i] = x /\ Trace[i].keep})

\* A candidate before the last fetch time, its id in the saved set, was
\* dropped.
BehindWatermarkKeptUnlessSeenWitness ==
    /\ pc = "send"
    /\ last_run.present
    /\ \E x \in BehindWatermark :
           /\ x.taskId \in last_run.last_fetched_loggings
           /\ Count(activity_loggings, x) = 0

\* C16: the pagination loop ends after at most max_fetch + 1 page calls:
\* every page call but the last returned at least one record and lowered
\* the remaining count by what it returned, the loop is left only by an
\* empty page, an exhausted count or a raised call (a non-empty page shorter
\* than its limit does not end it), and a raised call ends the invocation
\* with an error.
PaginationTerminates ==
    LET max == MaxFetchOf(max_fetch_param)
    IN  /\ Len(calls) <= (IF max > 0 THEN max + 1 ELSE 0)
        /\ pc \in {"paging", "fetched"} =>
               /\ logging_to_fetch = max - Returned(Len(calls))
               /\ \A k \in 1 .. Len(calls) : ~calls[k].raised
               /\ \A k \in 1 .. Len(calls) - 1 : calls[k].n > 0
        /\ pc = "paging" =>
               /\ logging_to_fetch > 0
               /\ Len(calls) <= max - logging_to_fetch
        /\ (pc = "fetched" /\ calls # <<>>) =>
               \/ Last(calls).n = 0
               \/ logging_to_fetch <= 0
        /\ (calls # <<>> /\ Last(calls).raised) => pc = "idle" /\ outcome = "error"

\* A non-empty page shorter than its limit was followed by another page
\* call, and the loop has ended.
PaginationTerminatesWitness ==
    /\ pc = "fetched"
    /\ Len(calls) >= 2
    /\ calls[1].n > 0
    /\ calls[1].n < calls[1].limit
    /\ Len(calls) = MaxFetchOf(max_fetch_param)

\* C17: the cursor is written at most once in an invocation and only after
\* the sink call for the batch has returned; when the sink call raises the
\* cursor is left as it was at the start of the invocation, every id the
\* cursor records as seen belongs to a record the sink accepted, and the
\* next invocation fetches the records of the failed batch again.
SendBeforeSave ==
    /\ Len(writes) <= 1
    /\ writes # <<>> =>
           /\ Len(sent) = 1
           /\ outcome = "ok"
           /\ writes[1] = lastRun
    /\ (pc = "idle" /\ outcome = "error") =>
           /\ writes = <<>>
           /\ lastRun = startRun
    /\ lastRun.present =>
           \A id \in lastRun.last_fetched_loggings :
               \E key \in delivered : key[1] = id /\ key[2] = lastRun.last_fetch_time
    /\ pc = "send" => unsaved \subseteq Keys(activity_loggings)

\* The sink call of an invocation raised, the cursor was not written, and
\* the next invocation has fetched the records of the failed batch again.
SendBeforeSaveWitness ==
    /\ pc = "send"
    /\ unsaved # {}
    /\ unsaved \subseteq Keys(activity_loggings)
    /\ lastRun = last_run

====
